---- MODULE Spec2Model ----
(***************************************************************************)
(* Model of the mTP64 pack builder (ktx2mtp64): the catalog built by       *)
(* add_textures, and the two-pass write of main(): placeholder prefix,     *)
(* body pass with duplicate detection, LZ4 frame records and padding, and  *)
(* the final rewrite of header and mapping table.                          *)
(***************************************************************************)
EXTENDS Integers, Sequences, FiniteSets, TLC

\* ------------------------------------------------------------------ bounds
MaxFiles == 2

\* ------------------------------------------------------- program constants
\* sizeof(struct mtp64_header_s), packed
HdrSize == 10 + 1 + 3 + 20 + 32 + 32 + 4 + 4 + 4 + 4 + 1
\* sizeof(struct texture_header_s), packed
TexHdrSize == 1 + 4 + 2 + 2
\* sizeof(struct map_s), packed
MapRowSize == 4 + 4
\* uint8_t unused[4] written after the dictionary
UnusedSize == 4
\* const unsigned required_padding = 8
required_padding == 8
\* the mapping offset is the byte offset divided by 8
OffsetUnit == 8
\* dictionary file sizes must be a multiple of 1024
DictUnit == 1024
TYPE_ETC1 == 0
TYPE_RGBA8888 == 1
DATA_LZ4_COMPRESSED == 128
U8 == 2 ^ 8
\* A uint32_t is kept as its two 16-bit halves [hi, lo]
U16 == 2 ^ 16
U32Val(hi, lo) == [hi |-> hi, lo |-> lo]

\* ------------------------------------------------------------------ inputs
\* 32-bit keys the file names parse to
Keys == { U32Val(0, 17), U32Val(61166, 61166) }

\* Decoded texture contents: the XXH64 hash of the image data, the format
\* tag found in the file, and the outcome of LZ4F_compressFrame_usingCDict
\* (a frame length, or an LZ4F error code: the size_t value (size_t)-code,
\* written here as the negative number -code).
LZ4F_ERROR_GENERIC == -1
LZ4F_isError(code) == code < 0
Contents ==
  { [hash |-> 1, type |-> TYPE_ETC1,     lz4sz |-> 7],
    [hash |-> 2, type |-> TYPE_RGBA8888, lz4sz |-> 8],
    [hash |-> 3, type |-> TYPE_RGBA8888, lz4sz |-> LZ4F_ERROR_GENERIC] }

InputFile == [crc : Keys, content : Contents]

\* Sizes in bytes of the dictionary file named by -dictionary; NoDictionary
\* stands for options.dictionary_file == NULL.
NoDictionary == -1
DictionaryFiles == {NoDictionary, 1000, 1024, 256 * 1024}

\* Values an uninitialised word of malloc'ed memory can hold
UninitWords == {0, 48879}

\* Bytes fwrite manages to put out when handed an LZ4F error code as length
ShortWrites == {0, 4}

VARIABLES
  argv,            \* argv[1..argc-1]; the terminating NULL is at argc
  arg,             \* the entry of argv the option loop is at
  options,         \* struct { dump_textures, show_help, mtp64_out, ... }
  diag,            \* the last diagnostic written to stderr
  filename,        \* the entry of filenames add_textures is at
  alloc_nmemb,     \* capacity of the catalog array in add_textures
  once,            \* static uint8_t once of add_textures
  LONG_BIT,        \* width of long on the platform the tool was built for
  ferror_f_out,    \* ferror(f_out): a write to the pack file has failed
  pc,              \* position in main()
  filenames,       \* the input files, in command line order
  dictionary_file, \* options.dictionary_file (its size, or NoDictionary)
  textures,        \* catalog returned by add_textures
  map,             \* struct map_s *map
  mtp64_hdr,       \* struct mtp64_header_s mtp64_hdr
  fdic_sz,         \* size_t fdic_sz
  f_out,           \* contents of the output file (set of written segments)
  fpos,            \* file position of f_out (ftell)
  tex_hash_list,   \* hashes and file names of the textures written so far
  tex,             \* index of the descriptor the body pass is at
  f_dupes,         \* lines of duplicates.txt (<<>> while not created)
  exit_status      \* "running", "success", "failure", "abort"

\* the state of option parsing and of the catalog loop
front == << argv, arg, options, diag, filename, alloc_nmemb, once, LONG_BIT,
           ferror_f_out >>

vars == << argv, arg, options, diag, filename, alloc_nmemb, once, LONG_BIT,
           ferror_f_out,
           pc, filenames,
           dictionary_file, textures, map, mtp64_hdr, fdic_sz,
           f_out, fpos, tex_hash_list, tex, f_dupes, exit_status >>

\* ----------------------------------------------------------------- helpers
Permutations_(n) ==
  { p \in [1..n -> 1..n] : \A i, j \in 1..n : i # j => p[i] # p[j] }

\* int compare_crc(const void *in1, const void *in2): the subtraction is
\* done in uint32_t and only then widened to int64_t.
Sub32(a, b) ==
  LET borrow == IF a.lo < b.lo THEN 1 ELSE 0
  IN  U32Val((a.hi - b.hi - borrow) % U16, (a.lo - b.lo) % U16)

\* the sign of a uint32_t converted to int64_t: the value is kept, so it is
\* 0 or 1, never -1
SignOfU32AsI64(d) == IF d.hi = 0 /\ d.lo = 0 THEN 0 ELSE 1

compare_crc(tex1, tex2) ==
  LET diff == SignOfU32AsI64(Sub32(tex1.crc, tex2.crc))
  IN  IF diff < 0 THEN -1 ELSE IF diff > 0 THEN 1 ELSE 0

\* qsort(base, nmemb, size, compar): some arrangement of the array that is
\* ordered by compar; when compar orders no arrangement (it is not a
\* consistent ordering) the result is an unspecified arrangement.
qsort(base) ==
  LET n == Len(base)
      arr == { [i \in 1..n |-> base[p[i]]] : p \in Permutations_(n) }
      ordered == { a \in arr :
                     \A i, j \in 1..n : i < j => compare_crc(a[i], a[j]) <= 0 }
  IN  IF ordered # {} THEN ordered ELSE arr

\* ------------------------------------------------------------ output file
\* The file is the set of segments written to it; a write replaces the
\* bytes it covers and leaves the rest of an older segment in place.
SegEnd(s) == s.start + s.len

Max2(a, b) == IF a > b THEN a ELSE b
Min2(a, b) == IF a < b THEN a ELSE b

fwrite(f, pos, kind, len, val) ==
  IF len = 0 THEN f
  ELSE
    LET lefts  == { [s EXCEPT !.len = Min2(SegEnd(s), pos) - s.start,
                              !.whole = s.whole /\ SegEnd(s) <= pos] :
                    s \in { t \in f : t.start < pos } }
        rights == { [s EXCEPT !.start = Max2(s.start, pos + len),
                              !.len = SegEnd(s) - Max2(s.start, pos + len),
                              !.whole = s.whole /\ s.start >= pos + len] :
                    s \in { t \in f : SegEnd(t) > pos + len } }
    IN  lefts \cup rights \cup
        { [start |-> pos, len |-> len, kind |-> kind, val |-> val,
           whole |-> TRUE] }

FileSize(f) ==
  IF f = {} THEN 0
  ELSE CHOOSE m \in { SegEnd(s) : s \in f } : \A s \in f : SegEnd(s) <= m

\* -------------------------------------------------------------------- Init
\* the initialiser with the fields of a finished one-texture pack filled in
MTP64_HEADER_INIT_Filled ==
  [ version |-> 1, pack_size |-> 0, n_textures |-> 1, n_mappings |-> 0,
    first_texture_offset |-> 2 * DictUnit, dictionary_size |-> 0 ]
MTP64_HEADER_INIT ==
  [ version |-> 1, pack_size |-> 0, n_textures |-> 0, n_mappings |-> 0,
    first_texture_offset |-> 0, dictionary_size |-> 0 ]

\* options = { 0 }
NULL == "NULL"
OPTIONS_INIT ==
  [ dump_textures |-> 0, show_help |-> 0, mtp64_out |-> NULL,
    dictionary_file |-> NULL ]

\* uint_fast32_t alloc_nmemb = 1024
ALLOC_NMEMB_INIT == 1024

\* The build proper: the options have been parsed (-out, and -dictionary
\* when a dictionary file is given) and the file names are valid.
Init ==
  /\ argv = << >>
  /\ arg = 0
  /\ diag = ""
  /\ filename = 0
  /\ alloc_nmemb = ALLOC_NMEMB_INIT
  /\ once = 1
  /\ LONG_BIT = 64
  /\ ferror_f_out = FALSE
  /\ pc = "add_textures"
  /\ filenames \in UNION { [1..n -> InputFile] : n \in 1..MaxFiles }
  /\ dictionary_file \in DictionaryFiles
  /\ options = [OPTIONS_INIT EXCEPT
                  !.mtp64_out = "pack",
                  !.dictionary_file = IF dictionary_file = NoDictionary
                                      THEN NULL ELSE "dict"]
  /\ textures = << >>
  /\ map = << >>
  /\ mtp64_hdr = MTP64_HEADER_INIT
  /\ fdic_sz = 0
  /\ f_out = {}
  /\ fpos = 0
  /\ tex_hash_list = << >>
  /\ tex = 0
  /\ f_dupes = << >>
  /\ exit_status = "running"

\* ------------------------------------------------------------ add_textures
\* The catalog: one descriptor per file name, then qsort by compare_crc.
add_textures ==
  /\ pc = "add_textures"
  /\ \E sorted \in qsort([i \in DOMAIN filenames |->
                            [crc |-> filenames[i].crc,
                             type |-> filenames[i].content.type,
                             filename |-> i]]) :
       textures' = sorted
  /\ pc' = "alloc"
  /\ UNCHANGED << front, filenames, dictionary_file, map, mtp64_hdr, fdic_sz, f_out,
                  fpos, tex_hash_list, tex, f_dupes, exit_status >>

\* ------------------------------------------------------------------- main
entries == Len(textures)
map_sz == entries * MapRowSize

\* struct map_s *map = malloc(map_sz); the crc column is filled from the
\* catalog, the offset column is left as malloc returned it.
alloc_map ==
  /\ pc = "alloc"
  /\ \E garbage \in [1..entries -> UninitWords] :
       map' = [i \in 1..entries |->
                 [crc |-> textures[i].crc, offset |-> garbage[i]]]
  /\ mtp64_hdr' = [mtp64_hdr EXCEPT !.n_mappings = entries]
  /\ pc' = "dictionary"
  /\ UNCHANGED << front, filenames, dictionary_file, textures, fdic_sz, f_out, fpos,
                  tex_hash_list, tex, f_dupes, exit_status >>

\* if (options.dictionary_file != NULL) { ... }
no_dictionary ==
  /\ pc = "dictionary"
  /\ dictionary_file = NoDictionary
  /\ pc' = "placeholder"
  /\ UNCHANGED << front, filenames, dictionary_file, textures, map, mtp64_hdr,
                  fdic_sz, f_out, fpos, tex_hash_list, tex, f_dupes,
                  exit_status >>

\* bad_dictionary with the output file opened and the placeholder header
\* written before the size of the dictionary is looked at
bad_dictionary_AfterOpen ==
  /\ pc = "dictionary"
  /\ dictionary_file # NoDictionary
  /\ dictionary_file % DictUnit # 0
  /\ fdic_sz' = dictionary_file
  /\ textures' = << >>
  /\ map' = << >>
  /\ f_out' = fwrite({}, 0, "hdr", HdrSize, mtp64_hdr)
  /\ fpos' = HdrSize
  /\ pc' = "exit"
  /\ exit_status' = "failure"
  /\ UNCHANGED << front, filenames, dictionary_file, mtp64_hdr,
                  tex_hash_list, tex, f_dupes >>

\* if (fdic_sz % 1024 != 0) { free(textures); free(map); return EXIT_FAILURE; }
bad_dictionary ==
  /\ pc = "dictionary"
  /\ dictionary_file # NoDictionary
  /\ dictionary_file % DictUnit # 0
  /\ fdic_sz' = dictionary_file
  /\ textures' = << >>
  /\ map' = << >>
  /\ pc' = "exit"
  /\ exit_status' = "failure"
  /\ UNCHANGED << front, filenames, dictionary_file, mtp64_hdr, f_out, fpos,
                  tex_hash_list, tex, f_dupes >>

\* mtp64_hdr.dictionary_size = fdic_sz / 1024;  (a uint8_t field)
load_dictionary ==
  /\ pc = "dictionary"
  /\ dictionary_file # NoDictionary
  /\ dictionary_file % DictUnit = 0
  /\ fdic_sz' = dictionary_file
  /\ mtp64_hdr' = [mtp64_hdr EXCEPT
                     !.dictionary_size = (dictionary_file \div DictUnit) % U8]
  /\ pc' = "placeholder"
  /\ UNCHANGED << front, filenames, dictionary_file, textures, map, f_out, fpos,
                  tex_hash_list, tex, f_dupes, exit_status >>

\* The prefix of the pack: header, dictionary, reserved bytes, mapping table.
\* withDict is the condition under which the dictionary bytes are written.
WritePrefix(f, hdr, withDict) ==
  LET f1 == fwrite(f, 0, "hdr", HdrSize, hdr)
      p1 == HdrSize
      f2 == IF withDict THEN fwrite(f1, p1, "dict", fdic_sz, fdic_sz) ELSE f1
      p2 == IF withDict THEN p1 + fdic_sz ELSE p1
      f3 == fwrite(f2, p2, "unused", UnusedSize, 0)
      p3 == p2 + UnusedSize
      f4 == fwrite(f3, p3, "map", map_sz, map)
      p4 == p3 + map_sz
  IN  [file |-> f4, pos |-> p4]

\* f_out = fopen(options.mtp64_out, "wb"); the placeholder prefix;
\* first_texture_offset = ftell(f_out); n_textures = 0.
write_placeholder ==
  /\ pc = "placeholder"
  /\ LET w == WritePrefix({}, mtp64_hdr, mtp64_hdr.dictionary_size # 0)
     IN  /\ f_out' = w.file
         /\ fpos' = w.pos
         /\ mtp64_hdr' = [mtp64_hdr EXCEPT
                            !.first_texture_offset = w.pos,
                            !.n_textures = 0]
  /\ tex_hash_list' = << >>
  /\ tex' = 1
  /\ pc' = "body"
  /\ UNCHANGED << front, filenames, dictionary_file, textures, map, fdic_sz, f_dupes,
                  exit_status >>

\* ---------------------------------------------------------------- body pass
InBody == pc = "body" /\ tex \in 1..entries

\* the content ktxTexture_CreateFromNamedFile loads for the descriptor
DataOf(t) == filenames[t.filename].content
data_hash == DataOf(textures[tex]).hash

\* for (d = 0; d < n_textures; d++) if (tex_hash_list[d].hash == data_hash)
\* the same scan started one entry late
Dupes_SkipsFirst ==
  { d \in 2..mtp64_hdr.n_textures : tex_hash_list[d].hash = data_hash }
Dupes == { d \in 1..mtp64_hdr.n_textures : tex_hash_list[d].hash = data_hash }
FirstOf(S) == CHOOSE d \in S : \A e \in S : d <= e

\* abort(): the process is gone, the output file stays as it is
Aborted ==
  /\ pc' = "exit"
  /\ exit_status' = "abort"
  /\ textures' = << >>
  /\ map' = << >>
  /\ tex_hash_list' = << >>
  /\ tex' = 0
  /\ UNCHANGED << front, filenames, dictionary_file, mtp64_hdr, fdic_sz, f_out,
                  fpos, f_dupes >>

\* kret != KTX_SUCCESS: abort()
body_ktx_error ==
  /\ InBody
  /\ Aborted

\* tex_hash_list[n_textures] = { data_hash, tex->filename }
HashListAfter ==
  Append(tex_hash_list,
         [hash |-> data_hash, filename |-> textures[tex].filename])

\* fprintf(f_dupes, "\"%s\" \"%s\"\n", tex_hash_list[d].filename,
\* tex->filename) with the two names the other way round
DupeLine_Swapped ==
  << textures[tex].filename, tex_hash_list[FirstOf(Dupes)].filename >>
DupeLine ==
  << tex_hash_list[FirstOf(Dupes)].filename, textures[tex].filename >>

\* goto duplicate with the hash registered once more
body_duplicate_Registers ==
  /\ InBody
  /\ Dupes # {}
  /\ f_dupes' = Append(f_dupes, DupeLine)
  /\ tex' = tex + 1
  /\ tex_hash_list' = HashListAfter
  /\ UNCHANGED << front, pc, filenames, dictionary_file, textures, map, mtp64_hdr,
                  fdic_sz, f_out, fpos, exit_status >>

\* goto duplicate: a line of duplicates.txt (opened at the first one), and
\* nothing else
body_duplicate ==
  /\ InBody
  /\ Dupes # {}
  /\ f_dupes' = Append(f_dupes, DupeLine)
  /\ tex' = tex + 1
  /\ UNCHANGED << front, pc, filenames, dictionary_file, textures, map, mtp64_hdr,
                  fdic_sz, f_out, fpos, tex_hash_list, exit_status >>

\* for (i = 0; i < n_textures; i++) if (map[i].crc == tex->crc) { ... break; }
MapHits == { i \in 1..mtp64_hdr.n_textures : map[i].crc = textures[tex].crc }
AssertOffsetFails == MapHits # {} /\ fpos % OffsetUnit # 0
MapAfterHit ==
  IF MapHits = {} THEN map
  ELSE [map EXCEPT ![FirstOf(MapHits)].offset = fpos \div OffsetUnit]

\* n_textures counted twice for one texture
HdrAfterNew_CountsTwice ==
  [mtp64_hdr EXCEPT !.n_textures = mtp64_hdr.n_textures + 2]
HdrAfterNew ==
  [mtp64_hdr EXCEPT !.n_textures = mtp64_hdr.n_textures + 1]

\* uint8_t data_format = tex->type;  tex_hdr.data_format = data_format;
data_format(t) == t.type

\* uint8_t add_pad = offset % required_padding; if nonzero, 8 - add_pad
\* the same without the test for an offset that is already aligned
add_pad_Always(offset) == required_padding - (offset % required_padding)
add_pad(offset) ==
  IF offset % required_padding = 0 THEN 0
  ELSE required_padding - (offset % required_padding)

\* the record without the padding behind it
WriteRecord_NoPadding(f, pos, t, lz4sz, written) ==
  LET f1 == fwrite(f, pos, "tex_hdr", TexHdrSize,
                   [data_format |-> data_format(t),
                    data_size |-> lz4sz,
                    hash |-> DataOf(t).hash])
      p1 == pos + TexHdrSize
      f2 == fwrite(f1, p1, "data", written, DataOf(t).hash)
      p2 == p1 + written
  IN  [file |-> f2, pos |-> p2]

\* fwv(tex_hdr); fwrite(lz4tex, 1, lz4sz, f_out); padding
WriteRecord(f, pos, t, lz4sz, written) ==
  LET f1 == fwrite(f, pos, "tex_hdr", TexHdrSize,
                   [data_format |-> data_format(t),
                    data_size |-> lz4sz,
                    hash |-> DataOf(t).hash])
      p1 == pos + TexHdrSize
      f2 == fwrite(f1, p1, "data", written, DataOf(t).hash)
      p2 == p1 + written
      f3 == fwrite(f2, p2, "pad", add_pad(p2), 0)
      p3 == p2 + add_pad(p2)
  IN  [file |-> f3, pos |-> p3]

\* LZ4F_createCompressionContext fails: abort()
body_lz4_ctx_error ==
  /\ InBody
  /\ Dupes = {}
  /\ Aborted

\* a new texture: hash registered, offset loop (with its assertion),
\* n_textures++, record written
body_new ==
  /\ InBody
  /\ Dupes = {}
  /\ ~LZ4F_isError(DataOf(textures[tex]).lz4sz)
  /\ IF AssertOffsetFails
     THEN Aborted
     ELSE /\ tex_hash_list' = HashListAfter
          /\ map' = MapAfterHit
          /\ mtp64_hdr' = HdrAfterNew
          /\ LET lz4sz == DataOf(textures[tex]).lz4sz
                 w == WriteRecord(f_out, fpos, textures[tex], lz4sz, lz4sz)
             IN  f_out' = w.file /\ fpos' = w.pos
          /\ tex' = tex + 1
          /\ UNCHANGED << front, pc, filenames, dictionary_file, textures, fdic_sz,
                          f_dupes, exit_status >>

\* the same, when LZ4F_compressFrame_usingCDict returned an error code: the
\* code is used as the length; fwrite puts out some bytes of the heap
body_new_lz4_error ==
  /\ InBody
  /\ Dupes = {}
  /\ LZ4F_isError(DataOf(textures[tex]).lz4sz)
  /\ IF AssertOffsetFails
     THEN Aborted
     ELSE /\ tex_hash_list' = HashListAfter
          /\ map' = MapAfterHit
          /\ mtp64_hdr' = HdrAfterNew
          /\ \E written \in ShortWrites :
               LET w == WriteRecord(f_out, fpos, textures[tex],
                                    DataOf(textures[tex]).lz4sz, written)
               IN  f_out' = w.file /\ fpos' = w.pos
          /\ tex' = tex + 1
          /\ UNCHANGED << front, pc, filenames, dictionary_file, textures, fdic_sz,
                          f_dupes, exit_status >>

\* ---------------------------------------------------------------- finalize
\* fseek(f_out, 0, SEEK_SET); header, dictionary (fdic_sz bytes), reserved
\* bytes and mapping table again; fclose; return EXIT_SUCCESS
finalize ==
  /\ pc = "body"
  /\ tex = entries + 1
  /\ LET w == WritePrefix(f_out, mtp64_hdr, TRUE)
     IN  f_out' = w.file /\ fpos' = w.pos
  /\ pc' = "exit"
  /\ exit_status' = "success"
  /\ UNCHANGED << front, filenames, dictionary_file, textures, map, mtp64_hdr,
                  fdic_sz, tex_hash_list, tex, f_dupes >>

Next ==
  \/ add_textures
  \/ alloc_map
  \/ no_dictionary
  \/ bad_dictionary
  \/ load_dictionary
  \/ write_placeholder
  \/ body_ktx_error
  \/ body_duplicate
  \/ body_lz4_ctx_error
  \/ body_new
  \/ body_new_lz4_error
  \/ finalize

Spec == Init /\ [][Next]_vars

\* ==================================================== writes that fail
\* The build when the device may refuse the data of a write to the pack
\* file (ENOSPC, EIO): the bytes handed to fwrite never reach the file, the
\* stream's position moves on and its error indicator is set.  No result of
\* fwrite or fclose is looked at, so the program goes on as before.
PackFiles ==
  { [crc |-> U32Val(0, 17), content |-> [hash |-> 1, type |-> TYPE_ETC1,
                                         lz4sz |-> 7]],
    [crc |-> U32Val(61166, 61166),
     content |-> [hash |-> 2, type |-> TYPE_RGBA8888, lz4sz |-> 8]] }

InitIO ==
  /\ argv = << >>
  /\ arg = 0
  /\ diag = ""
  /\ filename = 0
  /\ alloc_nmemb = ALLOC_NMEMB_INIT
  /\ once = 1
  /\ LONG_BIT = 64
  /\ ferror_f_out = FALSE
  /\ pc = "add_textures"
  /\ filenames \in UNION { [1..n -> PackFiles] : n \in 1..MaxFiles }
  /\ dictionary_file = NoDictionary
  /\ options = [OPTIONS_INIT EXCEPT !.mtp64_out = "pack"]
  /\ textures = << >>
  /\ map = << >>
  /\ mtp64_hdr = MTP64_HEADER_INIT
  /\ fdic_sz = 0
  /\ f_out = {}
  /\ fpos = 0
  /\ tex_hash_list = << >>
  /\ tex = 0
  /\ f_dupes = << >>
  /\ exit_status = "running"

\* what a failed write of the pack leaves alone
parsed == << argv, arg, options, diag, filename, alloc_nmemb, once, LONG_BIT >>

\* the placeholder prefix, none of which reaches the file
write_placeholder_fails ==
  /\ pc = "placeholder"
  /\ LET w == WritePrefix({}, mtp64_hdr, mtp64_hdr.dictionary_size # 0)
     IN  /\ f_out' = {}
         /\ fpos' = w.pos
         /\ mtp64_hdr' = [mtp64_hdr EXCEPT
                            !.first_texture_offset = w.pos,
                            !.n_textures = 0]
  /\ ferror_f_out' = TRUE
  /\ tex_hash_list' = << >>
  /\ tex' = 1
  /\ pc' = "body"
  /\ UNCHANGED << parsed, filenames, dictionary_file, textures, map, fdic_sz,
                  f_dupes, exit_status >>

\* a new texture whose record does not reach the file
body_new_fails ==
  /\ InBody
  /\ Dupes = {}
  /\ ~LZ4F_isError(DataOf(textures[tex]).lz4sz)
  /\ IF AssertOffsetFails
     THEN Aborted
     ELSE /\ tex_hash_list' = HashListAfter
          /\ map' = MapAfterHit
          /\ mtp64_hdr' = HdrAfterNew
          /\ LET lz4sz == DataOf(textures[tex]).lz4sz
                 w == WriteRecord(f_out, fpos, textures[tex], lz4sz, lz4sz)
             IN  f_out' = f_out /\ fpos' = w.pos
          /\ ferror_f_out' = TRUE
          /\ tex' = tex + 1
          /\ UNCHANGED << parsed, pc, filenames, dictionary_file, textures,
                          fdic_sz, f_dupes, exit_status >>

\* the final rewrite does not reach the file; return EXIT_SUCCESS all the same
finalize_fails ==
  /\ pc = "body"
  /\ tex = entries + 1
  /\ LET w == WritePrefix(f_out, mtp64_hdr, TRUE)
     IN  f_out' = f_out /\ fpos' = w.pos
  /\ ferror_f_out' = TRUE
  /\ pc' = "exit"
  /\ exit_status' = "success"
  /\ UNCHANGED << parsed, filenames, dictionary_file, textures, map, mtp64_hdr,
                  fdic_sz, tex_hash_list, tex, f_dupes >>

NextIO ==
  \/ add_textures
  \/ alloc_map
  \/ no_dictionary
  \/ write_placeholder
  \/ write_placeholder_fails
  \/ body_ktx_error
  \/ body_duplicate
  \/ body_lz4_ctx_error
  \/ body_new
  \/ body_new_fails
  \/ finalize
  \/ finalize_fails

SpecIO == InitIO /\ [][NextIO]_vars

\* ============================================== add_textures, file by file
CRC32_STR_LEN == 8
GL_ETC1_RGB8_OES == 36196
GL_RGBA8_EXT == 32856
UINT32_MAX == U32Val(65535, 65535)
KTX_SUCCESS == 0
KTX_FILE_DATA_ERROR == 1

\* File names are sequences of characters; a position past the end reads
\* the terminating NUL.
NUL == "NUL"
CharAt(s, i) == IF i \in DOMAIN s THEN s[i] ELSE NUL

LowerDigits ==
  << "0", "1", "2", "3", "4", "5", "6", "7", "8", "9",
     "a", "b", "c", "d", "e", "f" >>
UpperDigits ==
  << "0", "1", "2", "3", "4", "5", "6", "7", "8", "9",
     "A", "B", "C", "D", "E", "F" >>
isxdigit(c) == \E v \in 1..16 : c = LowerDigits[v] \/ c = UpperDigits[v]
DigitVal(c) ==
  (CHOOSE v \in 1..16 : c = LowerDigits[v] \/ c = UpperDigits[v]) - 1
isspace(c) == c = " "

\* strrchr(s, c): the position of the last c in s, 0 for NULL
strrchr(s, c) ==
  IF \E i \in DOMAIN s : s[i] = c
  THEN CHOOSE i \in DOMAIN s :
         s[i] = c /\ \A j \in DOMAIN s : s[j] = c => j <= i
  ELSE 0

\* strtol(nptr, NULL, 16): white space, an optional sign, an optional 0x,
\* then hexadecimal digits up to the first character that is not one; a
\* value outside long is clamped to LONG_MAX or LONG_MIN.  The result is
\* [neg, mag] with the magnitude in 16-bit halves (at most 8 digits are
\* ever handed over, so the magnitude is below 2^32).
RECURSIVE SkipSpace(_, _)
SkipSpace(s, i) == IF isspace(CharAt(s, i)) THEN SkipSpace(s, i + 1) ELSE i

RECURSIVE HexDigits(_, _, _)
HexDigits(s, i, acc) ==
  IF ~isxdigit(CharAt(s, i)) THEN acc
  ELSE HexDigits(s, i + 1,
                 U32Val(acc.hi * 16 + acc.lo \div 4096,
                        (acc.lo * 16 + DigitVal(s[i])) % U16))

strtol(nptr, bits) ==
  LET i0  == SkipSpace(nptr, 1)
      neg == CharAt(nptr, i0) = "-"
      i1  == IF CharAt(nptr, i0) \in {"-", "+"} THEN i0 + 1 ELSE i0
      i2  == IF /\ CharAt(nptr, i1) = "0"
                /\ CharAt(nptr, i1 + 1) \in {"x", "X"}
                /\ isxdigit(CharAt(nptr, i1 + 2))
             THEN i1 + 2 ELSE i1
      mag == HexDigits(nptr, i2, U32Val(0, 0))
      LONG_MAX == U32Val(32767, 65535)
      LONG_MIN == U32Val(32768, 0)
  IN  IF bits = 64 THEN [neg |-> neg, mag |-> mag]
      ELSE IF ~neg /\ mag.hi >= 32768 THEN [neg |-> FALSE, mag |-> LONG_MAX]
      ELSE IF neg /\ (mag.hi > 32768 \/ (mag.hi = 32768 /\ mag.lo > 0))
           THEN [neg |-> TRUE, mag |-> LONG_MIN]
      ELSE [neg |-> neg, mag |-> mag]

\* the conversion of a long to uint32_t (textures[*entries].crc = ...)
ToU32(l) ==
  IF ~l.neg \/ l.mag = U32Val(0, 0) THEN l.mag
  ELSE U32Val((U16 - 1 - l.mag.hi + (IF l.mag.lo = 0 THEN 1 ELSE 0)) % U16,
              (U16 - l.mag.lo) % U16)

\* strncpy(crcstr, dot - CRC32_STR_LEN, CRC32_STR_LEN)
crcstr(name, dot) == SubSeq(name, dot - CRC32_STR_LEN, dot - 1)

\* textures[*entries].crc = strtol(crcstr, NULL, 16)
ParsedCrc(name, bits) == ToU32(strtol(crcstr(name, strrchr(name, ".")), bits))

\* ASSERT(textures[*entries].crc != UINT32_MAX) with the test always passing
CrcIsMax_Never(crc) == FALSE
CrcIsMax(crc) == crc = UINT32_MAX

\* switch (glInternalformat) with every tag taken for a supported one
FormatSupported_Any(fmt) == TRUE
FormatSupported(fmt) == fmt \in {GL_ETC1_RGB8_OES, GL_RGBA8_EXT}
TypeOf(fmt) == IF fmt = GL_ETC1_RGB8_OES THEN TYPE_ETC1 ELSE TYPE_RGBA8888

\* One pass of the for loop over a file: where it leaves the loop body.
\* data_sz is [hi, lo], the upper and lower 32 bits of the uint64_t.
Step(file, bits) ==
  LET dot == strrchr(file.name, ".")
      len == dot - 1
  IN  IF dot = 0 THEN "no_extension"
      ELSE IF len < CRC32_STR_LEN THEN "short_name"
      ELSE IF CrcIsMax(ParsedCrc(file.name, bits)) THEN "ASSERT_crc"
      ELSE IF ~file.exists THEN "ASSERT_fopen"
      ELSE IF ~FormatSupported(file.glInternalformat) THEN "unsupported_format"
      ELSE IF file.ktx_res # KTX_SUCCESS THEN "ktx_error"
      ELSE IF file.data_sz.hi > 0 THEN "larger_than_4GiB"
      ELSE "entry"

\* the passes that end in goto err, and those that end in fatal_error()
GotoErr ==
  { "no_extension", "short_name", "unsupported_format", "ktx_error",
    "larger_than_4GiB" }
FatalError == { "ASSERT_crc", "ASSERT_fopen" }

\* if (len > CRC32_STR_LEN) { if (once) { once = 0; fprintf(stderr, ...) } }
Truncated(file) == strrchr(file.name, ".") - 1 > CRC32_STR_LEN
OnceAfter(file) == IF Truncated(file) THEN 0 ELSE once
Warns(file) == Truncated(file) /\ once = 1

\* ------------------------------------------------ input files of the catalog
KtxExt == << ".", "k", "t", "x" >>
Content(h) == CHOOSE c \in Contents : c.hash = h
KtxFile(name, content) ==
  [ name |-> name, exists |-> TRUE,
    glInternalformat |-> IF content.type = TYPE_ETC1 THEN GL_ETC1_RGB8_OES
                         ELSE GL_RGBA8_EXT,
    ktx_res |-> KTX_SUCCESS, data_sz |-> [hi |-> 0, lo |-> 64],
    content |-> content ]

Name_00000011 == << "0", "0", "0", "0", "0", "0", "1", "1" >> \o KtxExt
Name_00000012 == << "0", "0", "0", "0", "0", "0", "1", "2" >> \o KtxExt
Name_EEEEEEEE == << "E", "E", "E", "E", "E", "E", "E", "E" >> \o KtxExt
Name_FFFFFFFF == << "F", "F", "F", "F", "F", "F", "F", "F" >> \o KtxExt
Name_ZZZZZZZZ == << "Z", "Z", "Z", "Z", "Z", "Z", "Z", "Z" >> \o KtxExt
Name_Minus1   == << "-", "0", "0", "0", "0", "0", "0", "1" >> \o KtxExt
Name_Long     ==
  << "t", "_", "0", "0", "0", "0", "0", "0", "a", "b" >> \o KtxExt
Name_Short    == << "0", "0", "1", "1" >> \o KtxExt
Name_NoDot    == << "0", "0", "0", "0", "0", "0", "1", "1" >>

CatalogFiles ==
  { KtxFile(Name_00000011, Content(1)),
    KtxFile(Name_EEEEEEEE, Content(2)),
    KtxFile(Name_FFFFFFFF, Content(1)),
    KtxFile(Name_ZZZZZZZZ, Content(1)),
    KtxFile(Name_Minus1, Content(2)),
    KtxFile(Name_Long, Content(2)),
    KtxFile(Name_Short, Content(1)),
    KtxFile(Name_NoDot, Content(1)),
    [KtxFile(Name_00000012, Content(1)) EXCEPT !.exists = FALSE],
    [KtxFile(Name_00000012, Content(1)) EXCEPT !.glInternalformat = 0],
    [KtxFile(Name_00000012, Content(1)) EXCEPT !.ktx_res = KTX_FILE_DATA_ERROR],
    [KtxFile(Name_00000012, Content(1)) EXCEPT !.data_sz = [hi |-> 1, lo |-> 0]] }

InitCatalog ==
  /\ argv = << >>
  /\ arg = 0
  /\ options = [OPTIONS_INIT EXCEPT !.mtp64_out = "pack"]
  /\ diag = ""
  /\ filename = 1
  /\ alloc_nmemb = ALLOC_NMEMB_INIT
  /\ once = 1
  /\ LONG_BIT \in {32, 64}
  /\ ferror_f_out = FALSE
  /\ pc = "add_textures"
  /\ filenames \in UNION { [1..n -> CatalogFiles] : n \in 1..MaxFiles }
  /\ dictionary_file = NoDictionary
  /\ textures = << >>
  /\ map = << >>
  /\ mtp64_hdr = MTP64_HEADER_INIT
  /\ fdic_sz = 0
  /\ f_out = {}
  /\ fpos = 0
  /\ tex_hash_list = << >>
  /\ tex = 0
  /\ f_dupes = << >>
  /\ exit_status = "running"

\* for (char **filename = filenames; *filename != NULL; filename++)
InLoop == pc = "add_textures" /\ filename \in 1..Len(filenames)

\* goto err: free(textures); return NULL; and in main
\* if (textures == NULL) { ...; return EXIT_FAILURE; }
add_textures_err ==
  /\ InLoop
  /\ Step(filenames[filename], LONG_BIT) \in GotoErr
  /\ once' = IF Step(filenames[filename], LONG_BIT) \in
                  {"no_extension", "short_name"}
             THEN once ELSE OnceAfter(filenames[filename])
  /\ diag' = "Unable to compile list of textures."
  /\ textures' = << >>
  /\ pc' = "exit"
  /\ exit_status' = "failure"
  /\ UNCHANGED << argv, arg, options, filename, alloc_nmemb, LONG_BIT, ferror_f_out,
                  filenames, dictionary_file, map, mtp64_hdr, fdic_sz, f_out,
                  fpos, tex_hash_list, tex, f_dupes >>

\* ASSERT(...) fails: fatal_error(__LINE__) prints and calls abort()
add_textures_fatal_error ==
  /\ InLoop
  /\ Step(filenames[filename], LONG_BIT) \in FatalError
  /\ once' = OnceAfter(filenames[filename])
  /\ diag' = "fatal_error"
  /\ textures' = << >>
  /\ pc' = "exit"
  /\ exit_status' = "abort"
  /\ UNCHANGED << argv, arg, options, filename, alloc_nmemb, LONG_BIT, ferror_f_out,
                  filenames, dictionary_file, map, mtp64_hdr, fdic_sz, f_out,
                  fpos, tex_hash_list, tex, f_dupes >>

\* the capacity enlarged only once the count has gone past it
Capacity_Late(n, nmemb) == IF n > nmemb THEN nmemb * 4 ELSE nmemb
\* if (*entries >= alloc_nmemb) { alloc_nmemb <<= 2; realloc(...) }
Capacity(n, nmemb) == IF n >= nmemb THEN nmemb * 4 ELSE nmemb

\* (*entries)++; if (*entries >= alloc_nmemb) { alloc_nmemb <<= 2; ... }
add_textures_entry ==
  /\ InLoop
  /\ Step(filenames[filename], LONG_BIT) = "entry"
  /\ once' = OnceAfter(filenames[filename])
  /\ diag' = IF Warns(filenames[filename])
             THEN "CRC file names longer than 8 characters will be truncated"
             ELSE diag
  /\ textures' =
       Append(textures,
              [crc |-> ParsedCrc(filenames[filename].name, LONG_BIT),
               type |-> TypeOf(filenames[filename].glInternalformat),
               filename |-> filename])
  /\ alloc_nmemb' = Capacity(entries + 1, alloc_nmemb)
  /\ filename' = filename + 1
  /\ UNCHANGED << argv, arg, options, LONG_BIT, ferror_f_out, pc, filenames,
                  dictionary_file, map, mtp64_hdr, fdic_sz, f_out, fpos,
                  tex_hash_list, tex, f_dupes, exit_status >>

\* *filename == NULL: realloc to *entries, qsort by compare_crc, return
add_textures_qsort ==
  /\ pc = "add_textures"
  /\ filename = Len(filenames) + 1
  /\ \E sorted \in qsort(textures) : textures' = sorted
  /\ pc' = "alloc"
  /\ UNCHANGED << front, filenames, dictionary_file, map, mtp64_hdr, fdic_sz,
                  f_out, fpos, tex_hash_list, tex, f_dupes, exit_status >>

NextCatalog ==
  \/ add_textures_err
  \/ add_textures_fatal_error
  \/ add_textures_entry
  \/ add_textures_qsort
  \/ alloc_map
  \/ no_dictionary
  \/ write_placeholder
  \/ body_ktx_error
  \/ body_duplicate
  \/ body_lz4_ctx_error
  \/ body_new
  \/ finalize

SpecCatalog == InitCatalog /\ [][NextCatalog]_vars

\* ================================================ add_textures, a long list
\* More file names than the array holds at first: MaxEntries valid files,
\* and a last name without extension that ends the run in goto err.
MaxEntries == 1030

InitAlloc ==
  /\ argv = << >>
  /\ arg = 0
  /\ options = [OPTIONS_INIT EXCEPT !.mtp64_out = "pack"]
  /\ diag = ""
  /\ filename = 1
  /\ alloc_nmemb = ALLOC_NMEMB_INIT
  /\ once = 1
  /\ LONG_BIT = 64
  /\ ferror_f_out = FALSE
  /\ pc = "add_textures"
  /\ filenames = [i \in 1..(MaxEntries + 1) |->
                    IF i <= MaxEntries
                    THEN KtxFile(Name_00000011, Content(1))
                    ELSE KtxFile(Name_NoDot, Content(1))]
  /\ dictionary_file = NoDictionary
  /\ textures = << >>
  /\ map = << >>
  /\ mtp64_hdr = MTP64_HEADER_INIT
  /\ fdic_sz = 0
  /\ f_out = {}
  /\ fpos = 0
  /\ tex_hash_list = << >>
  /\ tex = 0
  /\ f_dupes = << >>
  /\ exit_status = "running"

NextAlloc ==
  \/ add_textures_entry
  \/ add_textures_err

SpecAlloc == InitAlloc /\ [][NextAlloc]_vars

\* ======================================================= main: the options
MaxArgs == 4

\* The arguments of the command line, and the characters they are made of
Args ==
  { "-out", "-dump", "-help", "-dictionary", "-zz", "pack", "xdump",
    "xdictionary" }
ArgChars(a) ==
  CASE a = "-out"        -> << "-", "o", "u", "t" >>
    [] a = "-dump"       -> << "-", "d", "u", "m", "p" >>
    [] a = "-help"       -> << "-", "h", "e", "l", "p" >>
    [] a = "-dictionary" ->
         << "-", "d", "i", "c", "t", "i", "o", "n", "a", "r", "y" >>
    [] a = "-zz"         -> << "-", "z", "z" >>
    [] a = "pack"        -> << "p", "a", "c", "k" >>
    [] a = "xdump"       -> << "x", "d", "u", "m", "p" >>
    [] a = "xdictionary" ->
         << "x", "d", "i", "c", "t", "i", "o", "n", "a", "r", "y" >>

\* struct optlist_s opts[]
NONE == 0
REQUIRED == 1
opts ==
  << [name |-> << "o", "u", "t" >>, param |-> REQUIRED,
      val |-> "mtp64_out"],
     [name |-> << "d", "u", "m", "p" >>, param |-> NONE,
      val |-> "dump_textures"],
     [name |-> << "h", "e", "l", "p" >>, param |-> NONE,
      val |-> "show_help"],
     [name |-> << "d", "i", "c", "t", "i", "o", "n", "a", "r", "y" >>,
      param |-> REQUIRED, val |-> "dictionary_file"] >>

argc == Len(argv) + 1
\* argv[argc] is a null pointer
ArgIsNull(a) == a > Len(argv)
\* **arg == '-'
StartsWithDash(a) == CharAt(ArgChars(argv[a]), 1) = "-"
\* strcmp(opts[i].name, (*arg) + 1) == 0
strcmp0(i, a) == opts[i].name = Tail(ArgChars(argv[a]))

\* for (unsigned i = 0; i < sizeof(opts)/sizeof(*opts); i++): the loop over
\* opts for the argument at a; a REQUIRED option steps arg to its value and
\* the loop goes on comparing the remaining names with that value.
RECURSIVE OptLoop(_, _, _, _)
OptLoop(i, a, o, valid_option) ==
  IF i > Len(opts)
  THEN [at |-> "done", arg |-> a, options |-> o, valid_option |-> valid_option,
        name |-> << >>]
  ELSE IF ~strcmp0(i, a) THEN OptLoop(i + 1, a, o, valid_option)
  ELSE IF opts[i].param = NONE
       THEN OptLoop(i + 1, a, [o EXCEPT ![opts[i].val] = 1], 1)
  ELSE IF ArgIsNull(a + 1)
       THEN [at |-> "null", arg |-> a + 1, options |-> o, valid_option |-> 1,
             name |-> opts[i].name]
  ELSE IF StartsWithDash(a + 1)
       THEN [at |-> "expects_parameter", arg |-> a + 1, options |-> o,
             valid_option |-> 1, name |-> opts[i].name]
  ELSE OptLoop(i + 1, a + 1, [o EXCEPT ![opts[i].val] = argv[a + 1]], 1)

\* the pass of the argument loop over the option at arg
Pass == OptLoop(1, arg, options, 0)

\* the tests of main between the argument loop and add_textures, in order;
\* filenames is the arg the loop stopped at, which is never a null pointer
OptionsError_DumpWithOut(o) ==
  IF o.mtp64_out = NULL /\ o.dump_textures = 0
  THEN "No output file was specified."
  ELSE IF o.dump_textures = 1 /\ o.dictionary_file # NULL
  THEN "You may not dump textures and use a dictionary for LZ4 compression"
  ELSE ""
OptionsError(o) ==
  IF o.mtp64_out = NULL /\ o.dump_textures = 0
  THEN "No output file was specified."
  ELSE IF o.dump_textures = 1 /\ o.dictionary_file # NULL
  THEN "You may not dump textures and use a dictionary for LZ4 compression"
  ELSE IF o.dump_textures = 1 /\ o.mtp64_out # NULL
  THEN "using dump and out arguments is not allowed"
  ELSE ""

InitArgs ==
  /\ argv \in UNION { [1..n -> Args] : n \in 0..MaxArgs }
  /\ arg = 1
  /\ options = OPTIONS_INIT
  /\ diag = ""
  /\ filename = 0
  /\ alloc_nmemb = ALLOC_NMEMB_INIT
  /\ once = 1
  /\ LONG_BIT = 64
  /\ ferror_f_out = FALSE
  /\ pc = "options"
  /\ filenames = << >>
  /\ dictionary_file = NoDictionary
  /\ textures = << >>
  /\ map = << >>
  /\ mtp64_hdr = MTP64_HEADER_INIT
  /\ fdic_sz = 0
  /\ f_out = {}
  /\ fpos = 0
  /\ tex_hash_list = << >>
  /\ tex = 0
  /\ f_dupes = << >>
  /\ exit_status = "running"

\* what main leaves alone while it reads the command line
build == << filename, alloc_nmemb, once, LONG_BIT, ferror_f_out,
            dictionary_file, textures,
            map, mtp64_hdr, fdic_sz, f_out, fpos, tex_hash_list, tex,
            f_dupes >>

\* return from main, or the end of the process, during option parsing
Exit(status, message) ==
  /\ pc' = "exit"
  /\ exit_status' = status
  /\ diag' = message

\* if (argc < 2) { ...; return EXIT_FAILURE; }
main_no_command ==
  /\ pc = "options"
  /\ argc < 2
  /\ Exit("failure", "A command must be specified.")
  /\ UNCHANGED << argv, arg, options, filenames, build >>

\* if (**arg != '-') with arg at the null pointer that ends argv: the read
\* through the null pointer ends the process (SIGSEGV)
main_arg_null ==
  /\ pc = "options"
  /\ argc >= 2
  /\ ArgIsNull(arg)
  /\ Exit("crash", diag)
  /\ UNCHANGED << argv, arg, options, filenames, build >>

\* if (**arg != '-') { filenames = arg; break; }
main_filenames ==
  /\ pc = "options"
  /\ ~ArgIsNull(arg)
  /\ ~StartsWithDash(arg)
  /\ filenames' = SubSeq(argv, arg, Len(argv))
  /\ pc' = "checks"
  /\ UNCHANGED << argv, arg, options, diag, exit_status, build >>

InOption == pc = "options" /\ ~ArgIsNull(arg) /\ StartsWithDash(arg)

\* arg++; if (**arg == '-') with the option last on the command line
main_option_null ==
  /\ InOption
  /\ Pass.at = "null"
  /\ arg' = Pass.arg
  /\ options' = Pass.options
  /\ Exit("crash", diag)
  /\ UNCHANGED << argv, filenames, build >>

\* The option '%s' expects a parameter.
main_option_expects_parameter ==
  /\ InOption
  /\ Pass.at = "expects_parameter"
  /\ arg' = Pass.arg
  /\ options' = Pass.options
  /\ Exit("failure", "The option expects a parameter.")
  /\ UNCHANGED << argv, filenames, build >>

\* if (valid_option == 0) { ...; return EXIT_FAILURE; }
main_unrecognised ==
  /\ InOption
  /\ Pass.at = "done"
  /\ Pass.valid_option = 0
  /\ Exit("failure", "Unrecognised option")
  /\ UNCHANGED << argv, arg, options, filenames, build >>

\* if (options.show_help) { print_help(); return EXIT_SUCCESS; }
main_show_help ==
  /\ InOption
  /\ Pass.at = "done"
  /\ Pass.valid_option = 1
  /\ Pass.options.show_help = 1
  /\ arg' = Pass.arg
  /\ options' = Pass.options
  /\ Exit("success", "Usage: ktx2mtp64 [OPTION...] [FILE...]")
  /\ UNCHANGED << argv, filenames, build >>

\* the option is taken and the argument loop goes on: arg++
main_option ==
  /\ InOption
  /\ Pass.at = "done"
  /\ Pass.valid_option = 1
  /\ Pass.options.show_help = 0
  /\ arg' = Pass.arg + 1
  /\ options' = Pass.options
  /\ UNCHANGED << argv, diag, pc, filenames, exit_status, build >>

\* one of the tests on the options fails: return EXIT_FAILURE
main_options_error ==
  /\ pc = "checks"
  /\ OptionsError(options) # ""
  /\ Exit("failure", OptionsError(options))
  /\ UNCHANGED << argv, arg, options, filenames, build >>

\* textures = add_textures(filenames, &entries);
main_add_textures ==
  /\ pc = "checks"
  /\ OptionsError(options) = ""
  /\ pc' = "add_textures"
  /\ filename' = 1
  /\ UNCHANGED << argv, arg, options, diag, alloc_nmemb, once, LONG_BIT, ferror_f_out,
                  filenames, dictionary_file, textures, map, mtp64_hdr,
                  fdic_sz, f_out, fpos, tex_hash_list, tex, f_dupes,
                  exit_status >>

NextArgs ==
  \/ main_no_command
  \/ main_arg_null
  \/ main_filenames
  \/ main_option_null
  \/ main_option_expects_parameter
  \/ main_unrecognised
  \/ main_show_help
  \/ main_option
  \/ main_options_error
  \/ main_add_textures

SpecArgs == InitArgs /\ [][NextArgs]_vars

\* ===================================================== reading the pack back
Success == pc = "exit" /\ exit_status = "success"

\* the header at the start of the file
HdrOnDisk == (CHOOSE s \in f_out : s.kind = "hdr" /\ s.start = 0).val

\* the mapping table of the file: the last intact table written
TableSeg ==
  CHOOSE s \in f_out :
    /\ s.kind = "map" /\ s.whole
    /\ \A t \in f_out : t.kind = "map" /\ t.whole => t.start <= s.start
TableOnDisk == TableSeg.val

\* the texture records of the file (their 9-byte headers)
TexRecords == { s \in f_out : s.kind = "tex_hdr" }

\* number of bytes of body that follow a record header
BodyLen(r) ==
  IF ~LZ4F_isError(r.val.data_size) THEN r.val.data_size
  ELSE IF \E s \in f_out : s.kind = "data" /\ s.start = SegEnd(r)
       THEN (CHOOSE s \in f_out : s.kind = "data" /\ s.start = SegEnd(r)).len
       ELSE 0
RecEnd(r) == SegEnd(r) + BodyLen(r)
RoundUp8(x) == ((x + 7) \div 8) * 8

Lt32(a, b) == a.hi < b.hi \/ (a.hi = b.hi /\ a.lo < b.lo)

HashesOf(n) == { DataOf(textures[i]).hash : i \in 1..n }

\* ================================================================ properties

\* C1: on every successful build, for every input descriptor the row of the
\* final mapping table that carries its key holds the byte offset of the
\* texture record storing its content, divided by 8.
C1_RowHoldsRecordOffset ==
  Success =>
    \A i \in 1..entries :
      \E r \in TexRecords :
        /\ r.val.hash = DataOf(textures[i]).hash
        /\ TableOnDisk[i].crc = textures[i].crc
        /\ TableOnDisk[i].offset = r.start \div OffsetUnit

\* C2: the number of texture records written, and the header field
\* n_textures, equal the number of distinct content hashes among the
\* descriptors processed so far, and on success among all descriptors.
C2_OneRecordPerHash ==
  /\ pc = "body" =>
       /\ Cardinality(TexRecords) = Cardinality(HashesOf(tex - 1))
       /\ mtp64_hdr.n_textures = Cardinality(HashesOf(tex - 1))
       /\ \A r1, r2 \in TexRecords : r1.val.hash = r2.val.hash => r1 = r2
  /\ Success => HdrOnDisk.n_textures = Cardinality(HashesOf(entries))

\* a successful build in which two files with different keys had the same
\* content
C2_Witness ==
  /\ Success
  /\ mtp64_hdr.n_textures = 1
  /\ entries = 2
  /\ textures[1].crc # textures[2].crc

\* C3: the mapping row of a duplicate (same content hash, different key)
\* ends up with the same offset as the row of the original.
C3_DuplicateSharesOffset ==
  Success =>
    \A i, j \in 1..entries :
      ( /\ DataOf(textures[i]).hash = DataOf(textures[j]).hash
        /\ textures[i].crc # textures[j].crc )
      => TableOnDisk[i].offset = TableOnDisk[j].offset

\* C4: for any order of the input files the key column of the written
\* mapping table is strictly ascending in the numeric value of the keys.
C4_TableStrictlyAscending ==
  Success =>
    \A i, j \in 1..Len(TableOnDisk) :
      i < j => Lt32(TableOnDisk[i].crc, TableOnDisk[j].crc)

\* C5: every texture record in the file, the first one included, starts at
\* a byte offset that is a multiple of 8.
C5_RecordsAligned ==
  \A r \in TexRecords : r.start % OffsetUnit = 0

\* C6: from table allocation to exit n_mappings is the number of
\* descriptors in the catalog and n_textures <= n_mappings; n_textures only
\* grows, by at most one per processed descriptor.
CatalogLive == pc \in {"dictionary", "placeholder", "body"} \/ Success
C6_Counts ==
  /\ [](CatalogLive =>
          /\ mtp64_hdr.n_mappings = entries
          /\ mtp64_hdr.n_textures <= mtp64_hdr.n_mappings)
  /\ [][ /\ mtp64_hdr'.n_textures >= mtp64_hdr.n_textures
         /\ mtp64_hdr'.n_textures <= mtp64_hdr.n_textures + 1
         /\ (mtp64_hdr'.n_textures # mtp64_hdr.n_textures => tex' = tex + 1)
       ]_vars

\* the body pass after a new texture and a duplicate
C6_Witness ==
  /\ pc = "body"
  /\ tex = 3
  /\ mtp64_hdr.n_textures = 1
  /\ mtp64_hdr.n_mappings = 2

\* C7: in the finished file first_texture_offset is the byte position right
\* after the last mapping row, and the first texture record starts there.
C7_FirstTextureOffset ==
  Success =>
    /\ HdrOnDisk.first_texture_offset = SegEnd(TableSeg)
    /\ \E r \in TexRecords :
         r.whole /\ r.start = HdrOnDisk.first_texture_offset

\* C8: after the final rewrite pack_size * 8 is the size of the file.
C8_PackSize ==
  Success => HdrOnDisk.pack_size * 8 = FileSize(f_out)

\* C9: every record with an LZ4 frame as body has bit 0x80 set in
\* data_format, and the low bits are 0 for ETC1 and 1 for RGBA8888.
C9_DataFormat ==
  \A r \in TexRecords :
    ~LZ4F_isError(r.val.data_size) =>
      /\ (r.val.data_format \div DATA_LZ4_COMPRESSED) % 2 = 1
      /\ \E i \in 1..Len(filenames) :
           /\ filenames[i].content.hash = r.val.hash
           /\ r.val.data_format % DATA_LZ4_COMPRESSED =
                filenames[i].content.type

\* C10: each record (9-byte header and body) is followed by 0 to 7 zero
\* bytes, and the next record (or the end of the file) is at the end of the
\* record rounded up to the next multiple of 8.
NextStart(r) ==
  IF \E q \in TexRecords : q.start > r.start
  THEN (CHOOSE q \in TexRecords :
          /\ q.start > r.start
          /\ \A o \in TexRecords : o.start > r.start => q.start <= o.start).start
  ELSE fpos
PadLen(r) ==
  IF \E s \in f_out : s.kind = "pad" /\ s.start = RecEnd(r)
  THEN (CHOOSE s \in f_out : s.kind = "pad" /\ s.start = RecEnd(r)).len
  ELSE 0
C10_Padding ==
  pc = "body" =>
    \A r \in TexRecords :
      /\ SegEnd(r) - r.start = 9
      /\ PadLen(r) \in 0..7
      /\ NextStart(r) = RecEnd(r) + PadLen(r)
      /\ NextStart(r) = RoundUp8(RecEnd(r))
      /\ \A s \in f_out : s.kind = "pad" => s.val = 0

\* two records in the file, the first followed by padding
C10_Witness ==
  /\ pc = "body"
  /\ \E r1, r2 \in TexRecords :
       /\ r1.start < r2.start
       /\ PadLen(r1) > 0
       /\ r2.start = RecEnd(r1) + PadLen(r1)

\* C11: the finished file starts with the 115-byte header, then the
\* dictionary bytes, then exactly 3 reserved zero bytes, so that the mapping
\* table begins at byte 118 plus the number of dictionary bytes.
DictSegs == { s \in f_out : s.kind = "dict" /\ s.start = HdrSize }
DictBytes == IF DictSegs = {} THEN 0 ELSE (CHOOSE s \in DictSegs : TRUE).len
C11_PrefixLayout ==
  Success =>
    /\ \E h \in f_out : h.kind = "hdr" /\ h.start = 0 /\ h.len = 115
    /\ \E u \in f_out :
         /\ u.kind = "unused" /\ u.val = 0
         /\ u.start = 115 + DictBytes
         /\ u.len = 3
    /\ TableSeg.start = 118 + DictBytes

\* C12: for every accepted dictionary file (a multiple of 1024 bytes) the
\* header field dictionary_size times 1024 is the number of dictionary bytes
\* embedded in the file, and dictionary bytes are present exactly when
\* dictionary_size is not 0.
C12_DictionarySize ==
  (Success /\ dictionary_file # NoDictionary) =>
    /\ HdrOnDisk.dictionary_size * 1024 = DictBytes
    /\ (DictBytes # 0 <=> HdrOnDisk.dictionary_size # 0)

\* C15: the written mapping table never holds two rows with the same key;
\* a second file with a key already in the catalog is rejected.
C15_KeysUnique ==
  /\ Success =>
       \A i, j \in 1..Len(TableOnDisk) :
         i # j => TableOnDisk[i].crc # TableOnDisk[j].crc
  /\ (pc # "add_textures" /\ exit_status \in {"running", "success"}) =>
       \A i, j \in 1..Len(filenames) :
         i # j => filenames[i].crc # filenames[j].crc

\* C17: when the dictionary file's size is not a multiple of 1024 the
\* program exits with a non-zero status and the output file is never
\* created, truncated or written.
C17_BadDictionary ==
  (dictionary_file # NoDictionary /\ dictionary_file % 1024 # 0) =>
    /\ f_out = {} /\ fpos = 0
    /\ pc \in {"add_textures", "alloc", "dictionary", "exit"}
    /\ pc = "exit" => exit_status = "failure"

\* the exit taken for a dictionary of 1000 bytes
C17_Witness ==
  /\ pc = "exit"
  /\ exit_status = "failure"
  /\ fdic_sz = 1000
  /\ f_out = {}

\* C20: when the compressor reports an error (context creation or frame
\* compression) the build aborts with a non-zero status: no record is
\* written from the failed result and Finalize is never run.
C20_CompressorErrorAborts ==
  /\ \A r \in TexRecords : ~LZ4F_isError(r.val.data_size)
  /\ Success =>
       \A i \in 1..Len(filenames) : ~LZ4F_isError(filenames[i].content.lz4sz)

\* the build stopped in add_textures: non-zero exit, nothing written
HasKey(name) == strrchr(name, ".") - 1 >= CRC32_STR_LEN
NoCatalogNoOutput ==
  /\ pc \in {"add_textures", "exit"}
  /\ f_out = {} /\ fpos = 0
  /\ pc = "exit" => (exit_status \in {"failure", "abort"} /\ textures = << >>)

\* C13: add_textures rejects every file name in which the 8 characters
\* before the last '.' are not all hexadecimal digits, or in which fewer
\* than 8 characters precede it; the build exits non-zero before any output
\* file is created.
NotAKey(name) ==
  /\ strrchr(name, ".") # 0
  /\ \/ ~HasKey(name)
     \/ \E i \in 1..CRC32_STR_LEN :
          ~isxdigit(crcstr(name, strrchr(name, "."))[i])
C13_RejectsNonHexNames ==
  (\E i \in 1..Len(filenames) : NotAKey(filenames[i].name))
    => NoCatalogNoOutput

\* C14: a file whose 8-character key parses to 0xFFFFFFFF is never added to
\* the catalog: the build ends with a non-zero exit and without an output
\* file, and 0xFFFFFFFF is never a key of a mapping table.
ParsesToMax(name) == HasKey(name) /\ ParsedCrc(name, LONG_BIT) = UINT32_MAX
C14_SentinelKey ==
  /\ \A i \in 1..Len(textures) : textures[i].crc # UINT32_MAX
  /\ \A s \in f_out :
       s.kind = "map" => \A i \in 1..Len(s.val) : s.val[i].crc # UINT32_MAX
  /\ (\E i \in 1..Len(filenames) : ParsesToMax(filenames[i].name))
       => NoCatalogNoOutput

\* the abort at a second file, named FFFFFFFF.ktx, after a valid first one
C14_Witness ==
  /\ pc = "exit"
  /\ exit_status = "abort"
  /\ filename = 2
  /\ filenames[2].name = Name_FFFFFFFF
  /\ ParsesToMax(filenames[2].name)
  /\ ~ParsesToMax(filenames[1].name)

\* C16: if any input file fails catalog validation (no extension separator,
\* unsupported format tag, decoder error, decoded size above 2^32-1) there
\* is no catalog, the build exits non-zero and no output file is created or
\* written, however many earlier files were valid.
FailsValidation(file) ==
  \/ \A i \in DOMAIN file.name : file.name[i] # "."
  \/ file.exists /\ file.glInternalformat \notin {GL_ETC1_RGB8_OES, GL_RGBA8_EXT}
  \/ file.exists /\ file.ktx_res # KTX_SUCCESS
  \/ file.exists /\ file.data_sz.hi > 0
C16_InvalidFileFailsBuild ==
  (\E i \in 1..Len(filenames) : FailsValidation(filenames[i]))
    => NoCatalogNoOutput

\* the failure at a second file with an unsupported format tag, after a
\* first file that was entered into the catalog
C16_Witness ==
  /\ pc = "exit"
  /\ exit_status = "failure"
  /\ filename = 2
  /\ filenames[2].glInternalformat = 0
  /\ ~FailsValidation(filenames[1])
  /\ Step(filenames[1], LONG_BIT) = "entry"

\* What a command line asks for, read left to right: the options before
\* the first file name, each -out and -dictionary with the value after it.
RECURSIVE Given(_, _)
Given(i, acc) ==
  IF i > Len(argv) THEN acc
  ELSE IF argv[i] \in {"-dump", "-help"} THEN Given(i + 1, acc \cup {argv[i]})
  ELSE IF argv[i] \in {"-out", "-dictionary"}
       THEN IF i + 1 > Len(argv) \/ StartsWithDash(i + 1)
            THEN acc \cup {"no value"}
            ELSE Given(i + 2, acc \cup {argv[i]})
  ELSE IF StartsWithDash(i) THEN acc \cup {"unknown"}
  ELSE acc \cup {"file"}
CommandLine == Given(1, {})

\* C18: when the command line names no input file (only an output option
\* and its path, say) the build reports that no file names were specified,
\* exits non-zero and writes no output file.
OnlyOptions ==
  /\ "-out" \in CommandLine
  /\ CommandLine \subseteq {"-out", "-dump", "-dictionary"}
C18_NoFileNames ==
  (pc = "exit" /\ OnlyOptions) =>
    /\ diag = "No file names were specified."
    /\ exit_status = "failure"
    /\ f_out = {}

\* C19: a command line with -dump and -out, with -dump and -dictionary, or
\* with neither -dump nor -out ends with a non-zero exit before the catalog
\* is built, and no pack or dump file is created.
Conflict ==
  \/ {"-dump", "-out"} \subseteq CommandLine
  \/ {"-dump", "-dictionary"} \subseteq CommandLine
  \/ CommandLine \cap {"-dump", "-out"} = {}
C19_ConflictingOptions ==
  Conflict =>
    /\ pc \in {"options", "checks", "exit"}
    /\ f_out = {} /\ textures = << >>
    /\ pc = "exit" => exit_status \in {"failure", "crash"}

\* C19 as the program has it: the same, except that a -help reached while
\* the options are read prints the help text and ends with exit status 0,
\* still before the catalog and without any file.
C19_ConflictingOptionsOrHelp ==
  Conflict =>
    /\ pc \in {"options", "checks", "exit"}
    /\ f_out = {} /\ textures = << >>
    /\ pc = "exit" =>
         IF options.show_help = 1
         THEN exit_status = "success"
         ELSE exit_status \in {"failure", "crash"}

\* -dump and -out with a value, followed by a file name: refused by the
\* test on dump and out
C19_Witness ==
  /\ pc = "exit"
  /\ exit_status = "failure"
  /\ CommandLine = {"-dump", "-out", "file"}
  /\ options.dump_textures = 1
  /\ options.mtp64_out = "pack"
  /\ diag = "using dump and out arguments is not allowed"

\* C21: the duplicate report holds exactly one pair (original file name,
\* duplicate file name) per descriptor classified as a duplicate, the
\* original being the first-processed descriptor with the same content
\* hash; so it holds n_mappings - n_textures pairs, and the report file
\* exists exactly when a duplicate occurred.
Processed == IF Success THEN entries ELSE tex - 1
IsDuplicate(j) ==
  \E k \in 1..(j - 1) : DataOf(textures[k]).hash = DataOf(textures[j]).hash
OriginalOf(j) ==
  CHOOSE k \in 1..j :
    /\ DataOf(textures[k]).hash = DataOf(textures[j]).hash
    /\ \A l \in 1..(k - 1) :
         DataOf(textures[l]).hash # DataOf(textures[j]).hash
DuplicatesSoFar == { j \in 1..Processed : IsDuplicate(j) }
C21_DuplicateReport ==
  (pc = "body" \/ Success) =>
    /\ Len(f_dupes) = Cardinality(DuplicatesSoFar)
    /\ \A j \in DuplicatesSoFar :
         \E n \in 1..Len(f_dupes) :
           /\ f_dupes[n] = << textures[OriginalOf(j)].filename,
                              textures[j].filename >>
           /\ \A m \in 1..Len(f_dupes) :
                f_dupes[m][2] = textures[j].filename => m = n
    /\ Len(f_dupes) = Processed - mtp64_hdr.n_textures
    /\ Success => Len(f_dupes) = HdrOnDisk.n_mappings - HdrOnDisk.n_textures
    /\ (f_dupes # << >>) <=> (DuplicatesSoFar # {})

\* a finished build with one duplicate and one line in the report
C21_Witness ==
  /\ Success
  /\ Len(f_dupes) = 1
  /\ f_dupes[1][1] # f_dupes[1][2]
  /\ mtp64_hdr.n_mappings - mtp64_hdr.n_textures = 1

\* C22: the builder exits with status 0 only when the whole build went
\* through: never after a write to the pack file has failed, be it in the
\* placeholder, the body or the final rewrite.
C22_ExitStatus ==
  (pc = "exit" /\ exit_status = "success") => ~ferror_f_out

\* C23: processing a descriptor classified as a duplicate leaves the pack
\* file's length and contents, n_textures and the list of recorded content
\* hashes unchanged (no frame is compressed or written for it).
DuplicatePass ==
  /\ pc = "body" /\ tex \in 1..entries
  /\ IsDuplicate(tex)
  /\ tex' = tex + 1
C23_DuplicateWritesNothing ==
  [][ DuplicatePass =>
        /\ f_out' = f_out
        /\ FileSize(f_out') = FileSize(f_out)
        /\ fpos' = fpos
        /\ mtp64_hdr'.n_textures = mtp64_hdr.n_textures
        /\ tex_hash_list' = tex_hash_list ]_vars

\* the body pass right after a duplicate: one record in the file, one line
\* in the report
C23_Witness ==
  /\ pc = "body"
  /\ tex = 3
  /\ IsDuplicate(2)
  /\ Len(f_dupes) = 1
  /\ Cardinality(TexRecords) = 1
  /\ Len(tex_hash_list) = 1

\* C24: from the creation of the output file until the final rewrite is
\* done the header stored in the file is distinguishable from the header of
\* a finished pack, so a build that aborts in the body pass never leaves a
\* file whose header reads as a finished pack.
\* A finished pack counts at least one texture, no more textures than
\* mappings, and places its first record behind header, dictionary and table.
ReadsAsFinished(h) ==
  /\ h.n_textures >= 1
  /\ h.n_textures <= h.n_mappings
  /\ h.first_texture_offset >=
       HdrSize + h.dictionary_size * DictUnit + h.n_mappings * MapRowSize
C24_HeaderInvalidUntilFinalize ==
  /\ (f_out # {} /\ ~Success) => ~ReadsAsFinished(HdrOnDisk)
  /\ Success => ReadsAsFinished(HdrOnDisk)

\* a build aborted in the body pass after a first record was written
C24_Witness ==
  /\ pc = "exit"
  /\ exit_status = "abort"
  /\ TexRecords # {}
  /\ HdrOnDisk.n_textures = 0
  /\ HdrOnDisk.first_texture_offset = 0

\* C25: the assertion assert(offset % 8 == 0) in the loop that records a
\* mapping offset never fails, for any catalog (repeated keys included) and
\* any accepted dictionary size: whenever a row with the key of the texture
\* is found among the first n_textures rows, the file position is a
\* multiple of 8.
OffsetAsserted ==
  /\ pc = "body" /\ tex \in 1..entries
  /\ ~IsDuplicate(tex)
  /\ \E i \in 1..mtp64_hdr.n_textures : map[i].crc = textures[tex].crc
C25_AssertionHolds ==
  /\ OffsetAsserted => fpos % 8 = 0
  /\ (pc = "body" /\ mtp64_hdr.n_textures >= 1) => fpos % 8 = 0

\* a second texture with the key of the first row, the assertion reached
\* behind a dictionary of 1024 bytes
C25_Witness ==
  /\ OffsetAsserted
  /\ tex = 2
  /\ fdic_sz = DictUnit
  /\ textures[1].crc = textures[2].crc

\* C26: the final rewrite (header, dictionary, reserved bytes and mapping
\* table from offset 0) covers exactly as many bytes as the placeholder
\* prefix written before the body pass, and so leaves every byte of every
\* texture record as it was, for every accepted dictionary size.
RecordBytes == { s \in f_out : s.kind \in {"tex_hdr", "data", "pad"} }
C26_RewriteCoversPlaceholder ==
  /\ [](Success =>
          /\ fpos = mtp64_hdr.first_texture_offset
          /\ \A s \in RecordBytes : s.whole
          /\ Cardinality(TexRecords) = mtp64_hdr.n_textures)
  /\ [][ (pc = "body" /\ pc' = "exit" /\ exit_status' = "success") =>
           RecordBytes' = RecordBytes ]_vars

\* C27: for every argument vector with at least one argument the option
\* loop only reads argv[1] .. argv[argc-1]; it never reads through the null
\* pointer that ends argv, also when every argument is an option or when an
\* option that requires a parameter comes last.
C27_NeverReadsPastArgv ==
  argv # << >> =>
    /\ exit_status # "crash"
    /\ pc = "exit" => arg \in 1..Len(argv)

\* C28: the value that follows -out or -dictionary is stored as that
\* option's parameter only: it never switches on dump or help and never
\* takes a further argument.
ValueOnly ==
  /\ {"-dump", "-help", "-dictionary"} \cap CommandLine = {}
  /\ "-out" \in CommandLine
C28_ValueIsOnlyAValue ==
  ValueOnly =>
    /\ options.dump_textures = 0
    /\ options.show_help = 0
    /\ options.dictionary_file = NULL

\* C29: compare_crc is a consistent three-way comparison of 32-bit keys: it
\* returns -1 exactly when a < b, 1 exactly when a > b, 0 exactly when
\* a = b, and so compare_crc(a, b) = -compare_crc(b, a).
ThreeWay(a, b) == IF Lt32(a, b) THEN -1 ELSE IF Lt32(b, a) THEN 1 ELSE 0
C29_CompareCrcThreeWay ==
  \A i, j \in 1..Len(textures) :
    /\ compare_crc(textures[i], textures[j]) =
         ThreeWay(textures[i].crc, textures[j].crc)
    /\ compare_crc(textures[i], textures[j]) =
         0 - compare_crc(textures[j], textures[i])

\* C30: in add_textures, whenever a descriptor is written into slot
\* *entries of the array, *entries is below the allocated capacity
\* alloc_nmemb, for any number of input files; the capacity grows, by a
\* factor of 4, before the next slot would fall outside it.
C30_SlotWithinCapacity ==
  /\ [](pc = "add_textures" => entries < alloc_nmemb)
  /\ [][ /\ alloc_nmemb' \in {alloc_nmemb, 4 * alloc_nmemb}
         /\ (Len(textures') >= alloc_nmemb => alloc_nmemb' = 4 * alloc_nmemb)
       ]_vars

\* the pass that writes slot 1024, the first one of the enlarged array
C30_Witness ==
  /\ InLoop
  /\ entries = ALLOC_NMEMB_INIT
  /\ alloc_nmemb = 4 * ALLOC_NMEMB_INIT
====
